---- MODULE Spec2Model ----
(***************************************************************************)
(* The phone comparison pipeline of src/ai/gemini-comparison.ts:           *)
(* compareAndSelectPhone checks its preconditions, builds the prompt, and  *)
(* tries the models of modelsToTry in order.  For each model it awaits     *)
(* generateContent, extracts the JSON payload from the reply text, parses  *)
(* it, validates it against PhoneComparisonSchema and returns the          *)
(* validated value; a failure of any of these steps is caught, recorded in *)
(* lastError, and the next model is tried.                                 *)
(*                                                                         *)
(* Texts are sequences of tokens: the fence marker, the label json,        *)
(* whitespace, prose, and chunks of JSON source text.  A JSON document is  *)
(* abstracted to the features of it that PhoneComparisonSchema looks at.   *)
(* Error messages are sequences of string fragments, so that the template  *)
(* string of line 245 is a concatenation.                                  *)
(*                                                                         *)
(* Spec and FairSpec are one call of the pipeline; ValidatorSpec is the    *)
(* handling of one reply on every shape of document; ExtractionSpec is the *)
(* extraction and parsing of lines 211-226 on every short reply text;      *)
(* OrchestratorSpec is comparePhones of src/app/actions.ts around a call   *)
(* of the pipeline; ConcurrentSpec is two calls of the pipeline that the   *)
(* event loop interleaves.                                                 *)
(***************************************************************************)
EXTENDS Naturals, Sequences, FiniteSets, TLC

VARIABLES
    apiKey,       \* process.env.GEMINI_API_KEY
    request,      \* the ComparisonRequest argument
    pc,           \* position of the async function
    i,            \* loop index of the for loop (0-based, as in the code)
    lastError,    \* let lastError: Error | null
    invocations,  \* the generateContent calls made so far: <<[model, prompt]>>
    response,     \* the promise of the pending generateContent call
    errorLog,     \* the console.error lines of the catch block
    outcome,      \* what the call returned or threw
    jsonText,     \* let jsonText of line 214, in the extraction specification
    parsed,       \* const parsed of line 226, in the extraction specification
    formData,     \* the formData argument of comparePhones
    csvFile,      \* what loading the phone catalog yields
    opc,          \* position of the comparePhones call
    compareState, \* the CompareState that comparePhones returned
    grounded,     \* what the compareWithGrounding call returned or threw
    replies,      \* the replies this call has received, oldest first
    other         \* the frame of a second call, suspended at its await

vars == <<apiKey, request, pc, i, lastError, invocations, response, errorLog,
          outcome, jsonText, parsed, formData, csvFile, opc, compareState,
          grounded, replies, other>>

extraction == <<jsonText, parsed>>
orchestration == <<formData, csvFile, opc, compareState, grounded>>
concurrency == <<replies, other>>

\* the variables that are no part of the frame of a compareAndSelectPhone
\* call as the pipeline specifications track it
outside == <<extraction, orchestration, concurrency>>

-----------------------------------------------------------------------------
(* Bounds of the model *)

\* longest phone list of a request
MaxPhones == 2
\* longest priority list of a request
MaxPriorities == 1
\* a backend payload differs from the fully populated conformant payload
\* in at most this many fields
MaxDeviations == 1

-----------------------------------------------------------------------------
(* Requests and environment *)

SeqsUpTo(S, n) == UNION {[1..k -> S] : k \in 0..n}

\* the ids of the catalog the orchestrator selects from, in catalog order
Catalog == <<"p1", "p2", "p3">>
PhoneIds == {Catalog[k] : k \in DOMAIN Catalog}
\* an id no request of the model contains
UnknownId == "p9"
PriorityLabels == {"battery"}

\* the phones at the positions ks of the catalog, in catalog order
RECURSIVE Pick(_, _)
Pick(ks, k) ==
    IF k > Len(Catalog) THEN <<>>
    ELSE (IF k \in ks THEN <<Catalog[k]>> ELSE <<>>) \o Pick(ks, k + 1)

\* the phone lists of requests: selections from the catalog
PhoneLists ==
    {Pick(ks, 1) : ks \in {S \in SUBSET DOMAIN Catalog : Cardinality(S) <= MaxPhones}}

\* process.env.GEMINI_API_KEY: unset, set to the empty string, or set
ApiKeys == {"undefined", "", "key"}

\* interface ComparisonRequest; budget and additionalRequirements only flow
\* into the prompt text and are left out
Requests == [phones : PhoneLists,
             priorities : SeqsUpTo(PriorityLabels, MaxPriorities)]

modelsToTry == <<"gemini-2.0-flash-exp", "gemini-1.5-flash">>

\* the prompt of lines 108-194: the phone descriptions and the priorities
BuildPrompt(req) == [phones |-> req.phones, priorities |-> req.priorities]

-----------------------------------------------------------------------------
(* JSON values, as far as PhoneComparisonSchema can tell them apart *)

AltShapes == {"absent", "null", "string", "number"}

\* the shapes each field of a document can take
FieldShapes ==
    [json_type |-> {"object", "null"},
     selected_phone |-> {"absent"} \cup PhoneIds \cup {UnknownId},
     runner_up |-> {"absent", "null", "object"},
     price_inr |-> {"number", "string"},
     score_by_priority |-> {"number", "string"},
     selected_phone_price |-> {"number", "string"},
     alternative_if_budget_increases |-> AltShapes,
     alternative_if_budget_decreases |-> AltShapes,
     extra_key |-> {"absent", "present"},
     summary |-> {"plain", "fence"}]

\* the payload the prompt asks for, every field present and well typed
BaseValue ==
    [json_type |-> "object",
     selected_phone |-> "p1",
     runner_up |-> "object",
     price_inr |-> "number",
     score_by_priority |-> "number",
     selected_phone_price |-> "number",
     alternative_if_budget_increases |-> "string",
     alternative_if_budget_decreases |-> "string",
     extra_key |-> "absent",
     summary |-> "plain"]

\* the document null has no fields
NullValue == [BaseValue EXCEPT !.json_type = "null"]

\* every document: null, and the objects of every combination of shapes
AllJsonValues ==
    {NullValue} \cup
    [json_type : {"object"},
     selected_phone : FieldShapes.selected_phone,
     runner_up : FieldShapes.runner_up,
     price_inr : FieldShapes.price_inr,
     score_by_priority : FieldShapes.score_by_priority,
     selected_phone_price : FieldShapes.selected_phone_price,
     alternative_if_budget_increases : FieldShapes.alternative_if_budget_increases,
     alternative_if_budget_decreases : FieldShapes.alternative_if_budget_decreases,
     extra_key : FieldShapes.extra_key,
     summary : FieldShapes.summary]

\* the objects that differ from BaseValue in at most n fields
RECURSIVE Deviating(_)
Deviating(n) ==
    IF n = 0 THEN {BaseValue}
    ELSE Deviating(n - 1) \cup
         {[v EXCEPT ![f] = x] :
            <<v, f, x>> \in
              {t \in Deviating(n - 1) \X (DOMAIN FieldShapes \ {"json_type"})
                       \X UNION {FieldShapes[g] : g \in DOMAIN FieldShapes} :
                  t[3] \in FieldShapes[t[2]]}}

\* the documents the backends of the model reply with
JsonValues ==
    Deviating(MaxDeviations) \cup (IF MaxDeviations > 0 THEN {NullValue} ELSE {})

-----------------------------------------------------------------------------
(* Texts *)

Tok(k) == [kind |-> k]
JsonTok(part, v) == [kind |-> part, value |-> v]

FENCE == Tok("fence")
LABEL == Tok("label")
WS == Tok("whitespace")
PROSE == Tok("prose")

\* the value of a const that was never initialised
NoValue == [json_type |-> "undefined"]

\* JSON.stringify, cut at the fence marker when a string of the document
\* contains one
Serialize(v) ==
    IF v.summary = "fence"
    THEN <<JsonTok("jsonHead", v), FENCE, JsonTok("jsonTail", v)>>
    ELSE <<JsonTok("json", v)>>

\* F applied to the value of x, which is computed once
Let(x, F(_)) == CHOOSE r \in {F(v) : v \in {x}} : TRUE

\* String.prototype.includes
Includes(t, p) ==
    \E k \in 1..(Len(t) + 1) :
        /\ k + Len(p) - 1 <= Len(t)
        /\ SubSeq(t, k, k + Len(p) - 1) = p

\* String.prototype.indexOf, 1-based, 0 when p does not occur
IndexOf(t, p) ==
    IF Includes(t, p)
    THEN CHOOSE k \in 1..(Len(t) + 1) :
            /\ k + Len(p) - 1 <= Len(t)
            /\ SubSeq(t, k, k + Len(p) - 1) = p
            /\ \A j \in 1..(k - 1) : SubSeq(t, j, j + Len(p) - 1) # p
    ELSE 0

\* t.split(p)[0]
SplitFirst(t, p) ==
    Let(IndexOf(t, p), LAMBDA k : IF k = 0 THEN t ELSE SubSeq(t, 1, k - 1))

\* t.split(p)[1], for a t that includes p
SplitSecond(t, p) ==
    Let(IndexOf(t, p), LAMBDA k :
        Let(SubSeq(t, k + Len(p), Len(t)), LAMBDA rest : SplitFirst(rest, p)))

\* String.prototype.trim
Trim(t) ==
    Let({k \in 1..Len(t) : t[k] # WS}, LAMBDA inner :
        IF inner = {} THEN <<>>
        ELSE SubSeq(t,
                    CHOOSE k \in inner : \A j \in inner : k <= j,
                    CHOOSE k \in inner : \A j \in inner : k >= j))

\* a || b on strings
OrElse(a, b) == IF a = <<>> THEN b ELSE a

\* text.split(marker)[1]?.split(fence)[0]?.trim() || text
FencedOrText(text, marker) ==
    Let(SplitSecond(text, marker), LAMBDA after :
        Let(SplitFirst(after, <<FENCE>>), LAMBDA block :
            Let(Trim(block), LAMBDA trimmed : OrElse(trimmed, text))))

\* an extraction that looks for any fence before it looks for the labeled one
ExtractJSON_AnyFenceFirst(text) ==
    IF Includes(text, <<FENCE>>)
    THEN FencedOrText(text, <<FENCE>>)
    ELSE IF Includes(text, <<FENCE, LABEL>>)
    THEN FencedOrText(text, <<FENCE, LABEL>>)
    ELSE text

\* lines 214-219
ExtractJSON(text) ==
    IF Includes(text, <<FENCE, LABEL>>)
    THEN FencedOrText(text, <<FENCE, LABEL>>)
    ELSE IF Includes(text, <<FENCE>>)
    THEN FencedOrText(text, <<FENCE>>)
    ELSE text

\* JSON.parse: surrounding whitespace is skipped, and the text must be
\* exactly one JSON document
JSONParse(source) ==
    Let(Trim(source), LAMBDA t :
        IF Len(t) = 1 /\ t[1].kind = "json"
        THEN [ok |-> TRUE, value |-> t[1].value]
        ELSE IF /\ Len(t) = 3
                /\ t[1].kind = "jsonHead"
                /\ t[2] = FENCE
                /\ t[3].kind = "jsonTail"
                /\ t[1].value = t[3].value
        THEN [ok |-> TRUE, value |-> t[1].value]
        ELSE [ok |-> FALSE, value |-> NoValue])

-----------------------------------------------------------------------------
(* PhoneComparisonSchema *)

\* z.string().nullable().optional()
NullableOptionalString(shape) == shape \in {"absent", "null", "string"}

\* the schema of runner_up without .optional()
OptionalObject_Required(shape) == shape = "object"

\* z.object({...}).optional()
OptionalObject(shape) == shape \in {"absent", "object"}

\* the paths of the issues zod reports for v
SchemaIssues(v) ==
    IF v.json_type # "object" THEN {"(root)"}
    ELSE
      {p \in {"selected_phone", "runner_up", "all_phones_evaluated.price_inr",
              "all_phones_evaluated.score_by_priority",
              "budget_analysis.selected_phone_price",
              "budget_analysis.alternative_if_budget_increases",
              "budget_analysis.alternative_if_budget_decreases"} :
         \/ p = "selected_phone" /\ v.selected_phone = "absent"
         \/ p = "runner_up" /\ ~OptionalObject(v.runner_up)
         \/ p = "all_phones_evaluated.price_inr" /\ v.price_inr # "number"
         \/ p = "all_phones_evaluated.score_by_priority"
              /\ v.score_by_priority # "number"
         \/ p = "budget_analysis.selected_phone_price"
              /\ v.selected_phone_price # "number"
         \/ p = "budget_analysis.alternative_if_budget_increases"
              /\ ~NullableOptionalString(v.alternative_if_budget_increases)
         \/ p = "budget_analysis.alternative_if_budget_decreases"
              /\ ~NullableOptionalString(v.alternative_if_budget_decreases)}

\* the value zod returns for a conformant v: z.object keeps the declared
\* keys and strips the others
SchemaOutput(v) == [v EXCEPT !.extra_key = "absent"]

\* PhoneComparisonSchema.parse
SchemaParse(v) ==
    IF SchemaIssues(v) = {}
    THEN [ok |-> TRUE, value |-> SchemaOutput(v)]
    ELSE [ok |-> FALSE, value |-> v]

-----------------------------------------------------------------------------
(* Errors *)

Error(msg) == [isError |-> TRUE, name |-> "Error", message |-> msg]

\* lastError = null
NoError == [isError |-> FALSE, name |-> "null", message |-> <<>>]

\* what JSON.parse and PhoneComparisonSchema.parse throw
SyntaxError == [isError |-> TRUE, name |-> "SyntaxError",
                message |-> <<"Unexpected token in JSON">>]
ZodError == [isError |-> TRUE, name |-> "ZodError",
             message |-> <<"schema issues">>]

\* what generateContent or response.text() may throw: an Error with a
\* message, an Error with an empty message, a value that is no Error
BackendThrows ==
    {Error(<<"429 quota exceeded">>),
     Error(<<>>),
     [isError |-> FALSE, name |-> "string", message |-> <<"fetch failed">>]}

\* the precondition checks without the one of line 99
PreconditionError_NoKeyCheck(key, req) ==
    IF Len(req.phones) = 0
    THEN Error(<<"No phones to compare">>)
    ELSE NoError

\* the precondition checks without the one of line 103
PreconditionError_NoPhonesCheck(key, req) ==
    IF key \in {"undefined", ""}
    THEN Error(<<"GEMINI_API_KEY is not set">>)
    ELSE NoError

\* lines 99-105: the error thrown before the loop, NoError when none is
PreconditionError(key, req) ==
    IF key \in {"undefined", ""}
    THEN Error(<<"GEMINI_API_KEY is not set">>)
    ELSE IF Len(req.phones) = 0
    THEN Error(<<"No phones to compare">>)
    ELSE NoError

\* line 233: error instanceof Error ? error.message : 'Unknown error'
LoggedMessage(thrown) ==
    IF thrown.isError THEN thrown.message ELSE <<"Unknown error">>

\* a catch block that keeps the first error it saw
RecordError_KeepFirst(prev, thrown) ==
    IF prev # NoError THEN prev
    ELSE IF thrown.isError THEN thrown ELSE Error(<<"Unknown error">>)

\* line 234: the assignment to lastError in the catch block
RecordError(prev, thrown) ==
    IF thrown.isError THEN thrown ELSE Error(<<"Unknown error">>)

AllFailedPrefix == "All Gemini models failed. Last error: "

\* a final throw that rethrows lastError as it is
AllFailedError_Rethrow(last) == last

\* line 245
AllFailedError(last) ==
    Error(<<AllFailedPrefix>> \o
          (IF last = NoError \/ last.message = <<>>
           THEN <<"Unknown error">>
           ELSE last.message))

-----------------------------------------------------------------------------
(* Backend replies *)

NoResponse == [state |-> "none", text |-> <<>>, reason |-> NoError]
Pending == [state |-> "pending", text |-> <<>>, reason |-> NoError]
Fulfilled(text) == [state |-> "fulfilled", text |-> text, reason |-> NoError]
Rejected(thrown) == [state |-> "rejected", text |-> <<>>, reason |-> thrown]

\* the reply texts that carry the document v
TextsOf(v) ==
    LET s == Serialize(v) IN
    {s,
     <<WS>> \o s \o <<WS>>,
     <<FENCE, LABEL, WS>> \o s \o <<WS, FENCE>>,
     <<FENCE, WS>> \o s \o <<WS, FENCE>>,
     <<FENCE, LABEL, WS>> \o s,
     <<FENCE, WS, PROSE, WS, FENCE, WS, FENCE, LABEL, WS>> \o s \o <<WS, FENCE>>}

\* reply texts that carry no document
OtherTexts ==
    {<<>>, <<PROSE>>, <<FENCE, LABEL, WS, FENCE>>,
     <<FENCE, LABEL, WS, PROSE, WS, FENCE>>}

Texts == OtherTexts \cup UNION {TextsOf(v) : v \in JsonValues}

Responses == {Fulfilled(t) : t \in Texts} \cup {Rejected(e) : e \in BackendThrows}

-----------------------------------------------------------------------------
(* compareAndSelectPhone *)

NoOutcome == [kind |-> "none", value |-> NoValue, error |-> NoError]
Returned(v) == [kind |-> "returned", value |-> v, error |-> NoError]
Threw(e) == [kind |-> "threw", value |-> NoValue, error |-> e]

\* lines 210-230: what one iteration's try block does with the settled
\* promise: the value it returns, or what it throws
AttemptResult(resp) ==
    IF resp.state = "rejected"
    THEN [ok |-> FALSE, value |-> NoValue, thrown |-> resp.reason]
    ELSE Let(ExtractJSON(resp.text), LAMBDA extracted :
         Let(JSONParse(extracted), LAMBDA p :
             IF ~p.ok
             THEN [ok |-> FALSE, value |-> NoValue, thrown |-> SyntaxError]
             ELSE Let(SchemaParse(p.value), LAMBDA s :
                      IF s.ok
                      THEN [ok |-> TRUE, value |-> s.value, thrown |-> NoError]
                      ELSE [ok |-> FALSE, value |-> NoValue, thrown |-> ZodError])))

\* a loop that goes on to the next model after a success
ControlAfter_NoEarlyReturn(ok, k) ==
    IF k < Len(modelsToTry) - 1 THEN "continue"
    ELSE IF ok THEN "return"
    ELSE "throw"

\* a loop that gives up at the first failure
ControlAfter_NoFallback(ok, k) ==
    IF ok THEN "return" ELSE "throw"

\* lines 230-245: what follows iteration k: return from the try block,
\* continue with the next model, or leave the loop and throw
ControlAfter(ok, k) ==
    IF ok THEN "return"
    ELSE IF k < Len(modelsToTry) - 1 THEN "continue"
    ELSE "throw"

\* an invocation that always picks modelsToTry[0]
Invoke_FirstModel(k) ==
    /\ invocations' = Append(invocations,
                             [model |-> modelsToTry[1],
                              prompt |-> BuildPrompt(request)])
    /\ response' = Pending
    /\ pc' = "await"

\* lines 201-210: model.generateContent(prompt) for modelsToTry[k]
Invoke(k) ==
    /\ invocations' = Append(invocations,
                             [model |-> modelsToTry[k + 1],
                              prompt |-> BuildPrompt(request)])
    /\ response' = Pending
    /\ pc' = "await"

\* formData.get(name) of a field the form does not have, and a null
\* field of a CompareState
Null == [type |-> "null"]
Str(s) == [type |-> "string", value |-> s]

\* the values of the variables a specification does not use
NotExtracting == jsonText = <<>> /\ parsed = NoValue
NoForm == [budget |-> Null, priorities |-> Null, requirements |-> Null,
           require_5g |-> Null, use_grounding |-> Null]
NoCsv == [phones |-> <<>>, thrown |-> NoError]
NoState == [type |-> "undefined"]
NotOrchestrated ==
    /\ formData = NoForm
    /\ csvFile = NoCsv
    /\ opc = "none"
    /\ compareState = NoState
    /\ grounded = NoOutcome
NoFrame == [pc |-> "none"]
NotConcurrent == replies = <<>> /\ other = NoFrame

Init ==
    /\ NotExtracting
    /\ NotOrchestrated
    /\ NotConcurrent
    /\ apiKey \in ApiKeys
    /\ request \in Requests
    /\ pc = "start"
    /\ i = 0
    /\ lastError = NoError
    /\ invocations = <<>>
    /\ response = NoResponse
    /\ errorLog = <<>>
    /\ outcome = NoOutcome

\* lines 97-210: from the call to the first await
Start ==
    /\ pc = "start"
    /\ IF PreconditionError(apiKey, request) # NoError
       THEN /\ pc' = "threw"
            /\ outcome' = Threw(PreconditionError(apiKey, request))
            /\ UNCHANGED <<invocations, response>>
       ELSE /\ Invoke(0)
            /\ UNCHANGED outcome
    /\ UNCHANGED <<apiKey, request, i, lastError, errorLog>>
    /\ UNCHANGED outside

\* the promise of line 210 settles
BackendSettles ==
    /\ pc = "await"
    /\ \E r \in Responses : response' = r
    /\ pc' = "resume"
    /\ UNCHANGED <<apiKey, request, i, lastError, invocations, errorLog, outcome>>
    /\ UNCHANGED outside

\* lines 210-245: from the settled await to the next await, the return or
\* the throw
Resume ==
    /\ pc = "resume"
    /\ LET r == AttemptResult(response)
           c == ControlAfter(r.ok, i)
       IN  IF c = "return"
           THEN /\ pc' = "returned"
                /\ outcome' = Returned(r.value)
                /\ response' = NoResponse
                /\ UNCHANGED <<i, lastError, invocations, errorLog>>
           ELSE /\ lastError' = RecordError(lastError, r.thrown)
                /\ errorLog' = Append(errorLog,
                                      [model |-> modelsToTry[i + 1],
                                       message |-> LoggedMessage(r.thrown)])
                /\ i' = i + 1
                /\ IF c = "continue"
                   THEN /\ Invoke(i + 1)
                        /\ UNCHANGED outcome
                   ELSE /\ pc' = "threw"
                        /\ outcome' = Threw(AllFailedError(lastError'))
                        /\ response' = NoResponse
                        /\ UNCHANGED invocations
    /\ UNCHANGED <<apiKey, request>>
    /\ UNCHANGED outside

Next == Start \/ BackendSettles \/ Resume

Spec == Init /\ [][Next]_vars

\* the runtime runs the function up to its first await and resumes it when
\* the awaited promise has settled, and every backend call settles: at most
\* one of the three actions is enabled in a state, so fairness of Next is
\* fairness of each
FairSpec == Spec /\ WF_vars(Next)

\* lines 210-245 on every shape of JSON document the schema tells apart:
\* the first model has replied with the bare JSON text of the document
ValidatorInit ==
    /\ NotExtracting
    /\ NotOrchestrated
    /\ NotConcurrent
    /\ apiKey = "key"
    /\ request = [phones |-> <<"p1">>, priorities |-> <<"battery">>]
    /\ pc = "resume"
    /\ i = 0
    /\ lastError = NoError
    /\ invocations = <<[model |-> modelsToTry[1], prompt |-> BuildPrompt(request)]>>
    /\ \E v \in AllJsonValues : response = Fulfilled(Serialize(v))
    /\ errorLog = <<>>
    /\ outcome = NoOutcome

ValidatorNext == Resume

ValidatorSpec == ValidatorInit /\ [][ValidatorNext]_vars

-----------------------------------------------------------------------------
(* The extraction and parsing steps of lines 211-226 on their own *)

\* longest reply text of the extraction specification, in tokens
MaxTextLen == 4

\* the tokens of the reply texts: the fence marker, the label, whitespace,
\* prose, and the JSON text of a document
Alphabet == {FENCE, LABEL, WS, PROSE, JsonTok("json", BaseValue)}

\* valid JSON texts: of an object, of null, and of an object one of whose
\* strings contains the fence marker
CleanJsonTexts ==
    {Serialize(BaseValue), Serialize(NullValue),
     Serialize([BaseValue EXCEPT !.summary = "fence"])}

\* the text s wrapped in a fenced block, labeled or not
FencedBlocks(s) ==
    {<<FENCE, LABEL, WS>> \o s \o <<WS, FENCE>>,
     <<FENCE, LABEL>> \o s \o <<FENCE>>,
     <<FENCE, WS>> \o s \o <<WS, FENCE>>,
     <<FENCE>> \o s \o <<FENCE>>}

\* result.response.text() of line 211
ExtractionTexts ==
    SeqsUpTo(Alphabet, MaxTextLen)
      \cup CleanJsonTexts
      \cup UNION {FencedBlocks(s) : s \in CleanJsonTexts}

\* line 211: the first model has replied with some text
ExtractionInit ==
    /\ apiKey = "key"
    /\ request = [phones |-> <<"p1">>, priorities |-> <<"battery">>]
    /\ pc = "text"
    /\ i = 0
    /\ lastError = NoError
    /\ invocations = <<[model |-> modelsToTry[1], prompt |-> BuildPrompt(request)]>>
    /\ \E t \in ExtractionTexts : response = Fulfilled(t)
    /\ errorLog = <<>>
    /\ outcome = NoOutcome
    /\ NotExtracting
    /\ NotOrchestrated
    /\ NotConcurrent

\* lines 214-219
Extract ==
    /\ pc = "text"
    /\ jsonText' = ExtractJSON(response.text)
    /\ pc' = "extracted"
    /\ UNCHANGED <<apiKey, request, i, lastError, invocations, response,
                   errorLog, outcome, parsed>>
    /\ UNCHANGED <<orchestration, concurrency>>

\* line 226: JSON.parse returns the parsed value or throws
Parse ==
    /\ pc = "extracted"
    /\ parsed' = JSONParse(jsonText)
    /\ pc' = "parsed"
    /\ UNCHANGED <<apiKey, request, i, lastError, invocations, response,
                   errorLog, outcome, jsonText>>
    /\ UNCHANGED <<orchestration, concurrency>>

ExtractionNext == Extract \/ Parse

ExtractionSpec == ExtractionInit /\ [][ExtractionNext]_vars

-----------------------------------------------------------------------------
(* comparePhones of src/app/actions.ts: the form is parsed, the catalog is *)
(* loaded and narrowed, the pipeline is called and awaited, and its result *)
(* or its error becomes a CompareState                                     *)

\* phones.slice(0, 10)
MaxCompared == 10

\* number of phone records of the larger catalog file
BigCatalogSize == 12

Phone(id, price, fiveG) == [id |-> id, price_inr |-> price, has_5g |-> fiveG]

SmallCatalog ==
    <<Phone("p1", 100, FALSE), Phone("p2", 200, TRUE), Phone("p3", 300, TRUE)>>

BigCatalog ==
    [k \in 1..BigCatalogSize |-> Phone("b" \o ToString(k), 100 * k, k % 2 = 0)]

\* loading the catalog file: its records in file order, or a failure
CsvFiles ==
    {[phones |-> SmallCatalog, thrown |-> NoError],
     [phones |-> BigCatalog, thrown |-> NoError],
     [phones |-> <<>>, thrown |-> Error(<<"ENOENT: no such file or directory">>)],
     [phones |-> <<>>,
      thrown |-> [isError |-> FALSE, name |-> "string", message |-> <<"bad csv">>]]}

\* loadPhonesFromCSV()
LoadPhonesFromCSV(csv) == csv.phones

\* getPhonesInBudget(budget): the records priced within the budget
GetPhonesInBudget(csv, budget) ==
    SelectSeq(csv.phones, LAMBDA p : p.price_inr <= budget)

\* the strings a priorities field is made of: the pieces between its
\* commas, so that the empty string is the one empty piece
PriorityStrings ==
    {<<"">>, <<" ", "">>, <<"battery", " camera", "">>}

Forms ==
    [budget : {Str(""), Str("50"), Str("250")},
     priorities : {Null} \cup {Str(x) : x \in PriorityStrings},
     requirements : {Null, Str("dual sim")},
     require_5g : {Null, Str("on")},
     use_grounding : {Null, Str("on")}]

\* a string is falsy when it is empty, and so is null
Falsy(field) == field = Null \/ field.value = ""

\* the same for a string given by its pieces
FalsyPieces(field) == field = Null \/ field.value = <<"">>

Numerals == ("0" :> 0) @@ ("50" :> 50) @@ ("250" :> 250) @@ ("5000" :> 5000)

\* parseFloat
ParseFloat(str) ==
    IF str \in DOMAIN Numerals
    THEN [kind |-> "number", n |-> Numerals[str]]
    ELSE [kind |-> "NaN", n |-> 0]

Undefined == [kind |-> "undefined", n |-> 0]

\* lines 41-42
ParseBudget(field) == IF Falsy(field) THEN Undefined ELSE ParseFloat(field.value)

\* if (budget): undefined, NaN and 0 are falsy
HasBudget(budget) == budget.kind = "number" /\ budget.n # 0

\* String.prototype.trim on the pieces of a priorities string
TrimPiece(piece) ==
    CASE piece = " " -> ""
      [] piece = " camera" -> "camera"
      [] OTHER -> piece

\* lines 45-48: split(","), map(trim), filter(Boolean)
ParsePriorities(field) ==
    IF FalsyPieces(field) THEN <<>>
    ELSE SelectSeq([k \in 1..Len(field.value) |-> TrimPiece(field.value[k])],
                   LAMBDA label : label # "")

\* lines 65-83: the phones of the budget, or of 1.2 times the budget when
\* fewer than 3 are within it, or all phones; then those with 5G if asked
NarrowCatalog(csv, budget, require5G) ==
    LET inBudget == GetPhonesInBudget(csv, budget.n)
        loaded ==
            IF HasBudget(budget)
            THEN IF Len(inBudget) < 3
                 THEN SelectSeq(LoadPhonesFromCSV(csv),
                                LAMBDA p : 10 * p.price_inr <= 12 * budget.n)
                 ELSE inBudget
            ELSE LoadPhonesFromCSV(csv)
    IN  IF require5G THEN SelectSeq(loaded, LAMBDA p : p.has_5g) ELSE loaded

\* a narrowing that passes every phone on
LimitPhones_NoLimit(phones) == phones

\* lines 96-98
LimitPhones(phones) ==
    IF Len(phones) > MaxCompared THEN SubSeq(phones, 1, MaxCompared) ELSE phones

\* the ids of phone records: a request of the model lists its phones by id
Ids(phones) == [k \in 1..Len(phones) |-> phones[k].id]

\* lines 112-114 and 123-125
AdditionalRequirements(field, require5G) ==
    IF require5G
    THEN Str("Must have 5G. " \o (IF Falsy(field) THEN "" ELSE field.value))
    ELSE field

\* Number.prototype.toLocaleString('en-IN'), below 1,00,000
ToLocaleString(n) ==
    IF n < 1000 THEN ToString(n)
    ELSE ToString(n \div 1000) \o "," \o
         (IF n % 1000 < 10 THEN "00" ELSE IF n % 1000 < 100 THEN "0" ELSE "") \o
         ToString(n % 1000)

\* budget?.toLocaleString('en-IN') in a template string
BudgetText(budget) ==
    CASE budget.kind = "undefined" -> "undefined"
      [] budget.kind = "NaN" -> "NaN"
      [] OTHER -> ToLocaleString(budget.n)

\* lines 51-57
NoPrioritiesState ==
    [comparison |-> Null, phones |-> <<>>, sources |-> <<>>,
     error |-> Str(<<"Please select at least one priority (battery, camera, performance, etc.)">>),
     processingTime |-> "0"]

\* lines 86-92
NoPhonesState(budget) ==
    [comparison |-> Null, phones |-> <<>>, sources |-> <<>>,
     error |-> Str(<<"No phones found within budget ₹", BudgetText(budget),
                     ". Try increasing your budget.">>),
     processingTime |-> "elapsed"]

\* a catch block that reports every failure the same way
CaughtState_Generic(thrown) ==
    [comparison |-> Null, phones |-> <<>>, sources |-> <<>>,
     error |-> Str(<<"An unexpected error occurred">>),
     processingTime |-> "elapsed"]

\* lines 139-147
CaughtState(thrown) ==
    [comparison |-> Null, phones |-> <<>>, sources |-> <<>>,
     error |-> Str(IF thrown.isError THEN thrown.message
                   ELSE <<"An unexpected error occurred">>),
     processingTime |-> "elapsed"]

\* lines 133-138
SuccessState(comparison, phones, sources) ==
    [comparison |-> comparison, phones |-> phones, sources |-> sources,
     error |-> Null, processingTime |-> "elapsed"]

\* compareWithGrounding, lines 251-263: the pipeline's result with no
\* sources, or the pipeline's error
CompareWithGrounding(out) ==
    IF out.kind = "returned"
    THEN [kind |-> "returned",
          value |-> [comparison |-> out.value, sources |-> <<>>],
          error |-> NoError]
    ELSE out

NoRequest == [phones |-> <<>>, priorities |-> <<>>]

OrchestratorInit ==
    /\ apiKey \in ApiKeys
    /\ request = NoRequest
    /\ pc = "idle"
    /\ i = 0
    /\ lastError = NoError
    /\ invocations = <<>>
    /\ response = NoResponse
    /\ errorLog = <<>>
    /\ outcome = NoOutcome
    /\ formData \in Forms
    /\ csvFile \in CsvFiles
    /\ opc = "called"
    /\ compareState = NoState
    /\ grounded = NoOutcome
    /\ NotExtracting
    /\ NotConcurrent

\* lines 33-128: from the call to an early return, to the catch block, or
\* to the call of the pipeline, made directly (line 119) or by
\* compareWithGrounding (line 108, and lines 251-258 of the pipeline's file)
ComparePhones ==
    /\ opc = "called"
    /\ LET budget == ParseBudget(formData.budget)
           priorities == ParsePriorities(formData.priorities)
           require5G == formData.require_5g = Str("on")
           phones == NarrowCatalog(csvFile, budget, require5G)
       IN  IF priorities = <<>>
           THEN /\ compareState' = NoPrioritiesState
                /\ opc' = "done"
                /\ UNCHANGED <<request, pc>>
           ELSE IF csvFile.thrown # NoError
           THEN /\ compareState' = CaughtState(csvFile.thrown)
                /\ opc' = "done"
                /\ UNCHANGED <<request, pc>>
           ELSE IF Len(phones) = 0
           THEN /\ compareState' = NoPhonesState(budget)
                /\ opc' = "done"
                /\ UNCHANGED <<request, pc>>
           ELSE /\ request' =
                     [phones |-> Ids(LimitPhones(phones)),
                      budget |-> budget,
                      priorities |-> priorities,
                      additionalRequirements |->
                          AdditionalRequirements(formData.requirements, require5G)]
                /\ pc' = "start"
                /\ opc' = IF formData.use_grounding = Str("on")
                          THEN "await grounding" ELSE "await"
                /\ UNCHANGED compareState
    /\ UNCHANGED <<apiKey, i, lastError, invocations, response, errorLog, outcome>>
    /\ UNCHANGED <<formData, csvFile, grounded, extraction, concurrency>>

\* lines 258-262 of compareWithGrounding: the pipeline call it awaits has
\* returned or thrown, and it returns or throws in its turn
CompareWithGroundingResumes ==
    /\ opc = "await grounding"
    /\ pc \in {"returned", "threw"}
    /\ grounded = NoOutcome
    /\ grounded' = CompareWithGrounding(outcome)
    /\ UNCHANGED <<apiKey, request, pc, i, lastError, invocations, response,
                   errorLog, outcome>>
    /\ UNCHANGED <<formData, csvFile, opc, compareState, extraction, concurrency>>

\* lines 108-148: the call comparePhones awaits, of compareWithGrounding
\* or of the pipeline, has returned or thrown
ComparePhonesResumes ==
    /\ \/ opc = "await" /\ pc \in {"returned", "threw"}
       \/ opc = "await grounding" /\ grounded # NoOutcome
    /\ compareState' =
          IF opc = "await grounding"
          THEN IF grounded.kind = "threw" THEN CaughtState(grounded.error)
               ELSE SuccessState(grounded.value.comparison, request.phones,
                                 grounded.value.sources)
          ELSE IF outcome.kind = "threw" THEN CaughtState(outcome.error)
               ELSE SuccessState(outcome.value, request.phones, <<>>)
    /\ opc' = "done"
    /\ UNCHANGED <<apiKey, request, pc, i, lastError, invocations, response,
                   errorLog, outcome>>
    /\ UNCHANGED <<formData, csvFile, grounded, extraction, concurrency>>

OrchestratorNext ==
    \/ ComparePhones
    \/ Start
    \/ BackendSettles
    \/ Resume
    \/ CompareWithGroundingResumes
    \/ ComparePhonesResumes

OrchestratorSpec == OrchestratorInit /\ [][OrchestratorNext]_vars

-----------------------------------------------------------------------------
(* Two compareAndSelectPhone calls in one process.  A call runs without    *)
(* interruption up to its await; while it is suspended, or while its       *)
(* continuation is queued, the event loop may run the other call.  The     *)
(* variables of the pipeline hold the frame of the call that runs next,    *)
(* and other holds the frame of the call that does not.                    *)

\* the parameters and locals of the call, and the replies it has received
ThisFrame ==
    [request |-> request, pc |-> pc, i |-> i, lastError |-> lastError,
     invocations |-> invocations, response |-> response,
     errorLog |-> errorLog, outcome |-> outcome, replies |-> replies]

\* the frame of a call that has not begun
NewFrame(req) ==
    [request |-> req, pc |-> "start", i |-> 0, lastError |-> NoError,
     invocations |-> <<>>, response |-> NoResponse, errorLog |-> <<>>,
     outcome |-> NoOutcome, replies |-> <<>>]

\* what a backend replies to either call
ConcurrentResponses ==
    {Fulfilled(Serialize(BaseValue)),
     Fulfilled(<<FENCE, LABEL, WS>>
               \o Serialize([BaseValue EXCEPT !.selected_phone = "p2"])
               \o <<WS, FENCE>>),
     Fulfilled(Serialize([BaseValue EXCEPT !.price_inr = "string"])),
     Fulfilled(<<PROSE>>),
     Rejected(Error(<<"429 quota exceeded">>)),
     Rejected([isError |-> FALSE, name |-> "string", message |-> <<"fetch failed">>])}

ConcurrentInit ==
    /\ apiKey \in ApiKeys
    /\ request = [phones |-> <<"p1">>, priorities |-> <<"battery">>]
    /\ pc = "start"
    /\ i = 0
    /\ lastError = NoError
    /\ invocations = <<>>
    /\ response = NoResponse
    /\ errorLog = <<>>
    /\ outcome = NoOutcome
    /\ replies = <<>>
    /\ \E phones \in {<<>>, <<"p2", "p3">>} :
          other = NewFrame([phones |-> phones, priorities |-> <<"battery">>])
    /\ NotExtracting
    /\ NotOrchestrated

\* the promise of line 210 settles; the reply is remembered
RunSettles ==
    /\ pc = "await"
    /\ \E r \in ConcurrentResponses :
          /\ response' = r
          /\ replies' = Append(replies, r)
    /\ pc' = "resume"
    /\ UNCHANGED <<apiKey, request, i, lastError, invocations, errorLog, outcome>>
    /\ UNCHANGED <<extraction, orchestration, other>>

\* an event loop that keeps one loop index for both calls
Switch_SharedIndex ==
    /\ other # NoFrame
    /\ other' = ThisFrame
    /\ request' = other.request
    /\ pc' = other.pc
    /\ i' = i
    /\ lastError' = other.lastError
    /\ invocations' = other.invocations
    /\ response' = other.response
    /\ errorLog' = other.errorLog
    /\ outcome' = other.outcome
    /\ replies' = other.replies
    /\ UNCHANGED <<apiKey, extraction, orchestration>>

\* the event loop turns to the other call: every parameter and local of
\* lines 94-201 belongs to one call, process.env is shared
Switch ==
    /\ other # NoFrame
    /\ other' = ThisFrame
    /\ request' = other.request
    /\ pc' = other.pc
    /\ i' = other.i
    /\ lastError' = other.lastError
    /\ invocations' = other.invocations
    /\ response' = other.response
    /\ errorLog' = other.errorLog
    /\ outcome' = other.outcome
    /\ replies' = other.replies
    /\ UNCHANGED <<apiKey, extraction, orchestration>>

ConcurrentNext == Start \/ RunSettles \/ Resume \/ Switch

ConcurrentSpec == ConcurrentInit /\ [][ConcurrentNext]_vars

-----------------------------------------------------------------------------
(* The state machine of the fallback controller, read off the position of  *)
(* the call                                                                *)

IsAllFailedError(e) == e.message # <<>> /\ e.message[1] = AllFailedPrefix

State ==
    CASE pc = "start" -> "BUILDING_PROMPT"
      [] pc \in {"await", "resume"} -> "TRYING_CANDIDATE"
      [] pc = "returned" -> "SUCCESS"
      [] pc = "threw" /\ IsAllFailedError(outcome.error) -> "ALL_FAILED"
      [] OTHER -> "PRECONDITION_FAILED"

\* the document in the reply that is being handled, if there is one
Payload == JSONParse(ExtractJSON(response.text))

\* the reply being handled is a text whose extracted payload parses and
\* has every required field well typed and every optional field of a
\* shape the schema admits
RequiredWellTyped(v) ==
    /\ v.json_type = "object"
    /\ v.selected_phone # "absent"
    /\ v.price_inr = "number"
    /\ v.score_by_priority = "number"
    /\ v.selected_phone_price = "number"

OptionalsAdmitted(v) ==
    /\ v.runner_up \in {"absent", "object"}
    /\ v.alternative_if_budget_increases \in {"absent", "null", "string"}
    /\ v.alternative_if_budget_decreases \in {"absent", "null", "string"}

ValidReply ==
    /\ pc = "resume"
    /\ response.state = "fulfilled"
    /\ Payload.ok
    /\ RequiredWellTyped(Payload.value)
    /\ OptionalsAdmitted(Payload.value)

FailedReply == pc = "resume" /\ ~ValidReply

\* the fields of v that the schema declares
DeclaredPart(v) == [v EXCEPT !.extra_key = "absent"]

-----------------------------------------------------------------------------
(* Claims *)

\* C1: when the first candidate's reply is a text whose extracted payload
\* parses and conforms to the schema, the call returns the validated payload
\* of that reply, exactly one backend invocation has been made, and none is
\* made afterwards.
C1_ShortCircuit ==
    /\ [][(ValidReply /\ i = 0) =>
            /\ pc' = "returned"
            /\ outcome' = Returned(DeclaredPart(Payload.value))
            /\ invocations' = invocations
            /\ Len(invocations') = 1]_vars
    /\ [][pc = "returned" => pc' = "returned" /\ invocations' = invocations]_vars

C1_Witness ==
    /\ pc = "returned"
    /\ i = 0
    /\ Len(invocations) = 1
    /\ invocations[1].model = modelsToTry[1]
    /\ outcome.kind = "returned"

\* C2: when the first candidate fails (the call rejects, the payload does
\* not parse, or it does not conform), the second candidate is invoked; when
\* its reply is valid the call returns the second reply's validated payload
\* after exactly two invocations, and no error reaches the caller.
C2_Fallback ==
    /\ [][(FailedReply /\ i = 0) =>
            /\ pc' = "await"
            /\ i' = 1
            /\ outcome' = NoOutcome
            /\ Len(invocations') = 2
            /\ invocations'[2].model = modelsToTry[2]]_vars
    /\ [][(ValidReply /\ i = 1) =>
            /\ pc' = "returned"
            /\ outcome' = Returned(DeclaredPart(Payload.value))
            /\ outcome'.error = NoError
            /\ Len(invocations') = 2]_vars

\* the scenario of the spec: the first reply is malformed JSON, the second
\* is valid and selects p2
C2_Witness ==
    /\ pc = "returned"
    /\ Len(invocations) = 2
    /\ Len(errorLog) = 1
    /\ errorLog[1].message = SyntaxError.message
    /\ outcome.kind = "returned"
    /\ outcome.value.selected_phone = "p2"

\* C3: once every candidate has failed, the call has thrown the
\* all-candidates-failed error, it has returned no value, and the message is
\* non-empty and ends with the failure reason of the last candidate tried.
C3_AllFailed ==
    Len(errorLog) = Len(modelsToTry) =>
        /\ pc = "threw"
        /\ outcome.kind = "threw"
        /\ outcome.value = NoValue
        /\ IsAllFailedError(outcome.error)
        /\ Len(outcome.error.message) >= 2
        /\ outcome.error.message =
             <<AllFailedPrefix>> \o
             (IF errorLog[Len(errorLog)].message = <<>>
              THEN <<"Unknown error">>
              ELSE errorLog[Len(errorLog)].message)

\* both candidates failed, for different reasons
C3_Witness ==
    /\ pc = "threw"
    /\ Len(errorLog) = 2
    /\ errorLog[1].message # errorLog[2].message
    /\ errorLog[2].message = <<"429 quota exceeded">>
    /\ outcome.error.message = <<AllFailedPrefix, "429 quota exceeded">>

Range(f) == {f[k] : k \in DOMAIN f}

\* C4: for a request with phones and priorities, a returned result selects
\* a phone of the request.
C4_SelectedIsRequested ==
    (pc = "returned" /\ request.phones # <<>> /\ request.priorities # <<>>) =>
        outcome.value.selected_phone \in Range(request.phones)

\* C5: a call with an empty phone list has thrown a precondition error,
\* not the all-candidates-failed error, and has invoked no backend.
C5_EmptyPhoneList ==
    (request.phones = <<>> /\ pc # "start") =>
        /\ pc = "threw"
        /\ outcome.kind = "threw"
        /\ outcome.value = NoValue
        /\ outcome.error.message \in
             {<<"No phones to compare">>, <<"GEMINI_API_KEY is not set">>}
        /\ apiKey = "key" => outcome.error.message = <<"No phones to compare">>
        /\ invocations = <<>>
        /\ response = NoResponse

C5_Witness ==
    /\ request.phones = <<>>
    /\ apiKey = "key"
    /\ pc = "threw"
    /\ outcome.error.message = <<"No phones to compare">>
    /\ invocations = <<>>

\* C6: a call made without the credential has thrown the missing-credential
\* error: no backend was invoked, the catch block of the loop never ran, and
\* the error is not the all-candidates-failed error.
C6_MissingCredential ==
    (apiKey \in {"undefined", ""} /\ pc # "start") =>
        /\ pc = "threw"
        /\ outcome.kind = "threw"
        /\ outcome.error.message = <<"GEMINI_API_KEY is not set">>
        /\ ~IsAllFailedError(outcome.error)
        /\ invocations = <<>>
        /\ errorLog = <<>>
        /\ lastError = NoError
        /\ i = 0

C6_Witness ==
    /\ apiKey = "undefined"
    /\ request.phones # <<>>
    /\ pc = "threw"
    /\ outcome.error.message = <<"GEMINI_API_KEY is not set">>
    /\ errorLog = <<>>

\* C7: the backends invoked so far are the first models of modelsToTry, in
\* that order and each once; every one but the last has failed before its
\* successor was invoked, and at most one call is in flight.
C7_PriorityOrder ==
    /\ Len(invocations) <= Len(modelsToTry)
    /\ \A k \in 1..Len(invocations) : invocations[k].model = modelsToTry[k]
    /\ \A j, k \in 1..Len(invocations) :
          j # k => invocations[j].model # invocations[k].model
    /\ Len(invocations) <= Len(errorLog) + 1
    /\ \A k \in 1..(Len(invocations) - 1) :
          errorLog[k].model = invocations[k].model
    /\ response # NoResponse => Len(errorLog) = Len(invocations) - 1
    /\ response # NoResponse <=> pc \in {"await", "resume"}

C7_Witness ==
    /\ pc = "await"
    /\ Len(invocations) = 2
    /\ invocations[1].model = modelsToTry[1]
    /\ invocations[2].model = modelsToTry[2]
    /\ Len(errorLog) = 1

Terminal == {"SUCCESS", "ALL_FAILED"}

\* the steps of the state machine of the fallback controller
MachineStep ==
    \/ State = "BUILDING_PROMPT" /\ State' = "TRYING_CANDIDATE" /\ i' = 0
    \/ State = "TRYING_CANDIDATE" /\ State' = "TRYING_CANDIDATE" /\ i' = i
    \/ State = "TRYING_CANDIDATE" /\ State' = "TRYING_CANDIDATE" /\ i' = i + 1
    \/ State = "TRYING_CANDIDATE" /\ State' = "SUCCESS"
    \/ State = "TRYING_CANDIDATE" /\ State' = "ALL_FAILED"
         /\ i = Len(modelsToTry) - 1

\* a call without the credential or without phones ends before any
\* candidate is tried
PreconditionStep ==
    /\ State = "BUILDING_PROMPT"
    /\ State' = "PRECONDITION_FAILED"
    /\ apiKey \in {"undefined", ""} \/ request.phones = <<>>
    /\ invocations' = <<>>

\* C8, as stated: every run starts in BUILDING_PROMPT, takes only steps of
\* the state machine, eventually reaches SUCCESS or ALL_FAILED and stays
\* there.
C8_Original ==
    /\ State = "BUILDING_PROMPT"
    /\ [][MachineStep]_vars
    /\ <>(State \in Terminal)
    /\ [][(State \in Terminal) => (State' = State)]_vars

\* C8, amended: a run whose preconditions hold takes only steps of the
\* state machine and eventually reaches SUCCESS or ALL_FAILED; a run without
\* the credential or with an empty phone list goes from BUILDING_PROMPT to a
\* precondition failure; every run ends in exactly one of the three and
\* stays there.
C8_StateMachine ==
    /\ State = "BUILDING_PROMPT"
    /\ [][MachineStep \/ PreconditionStep]_vars
    /\ [][(apiKey = "key" /\ request.phones # <<>>) => MachineStep]_vars
    /\ <>(State \in Terminal \cup {"PRECONDITION_FAILED"})
    /\ [][(State \in Terminal \cup {"PRECONDITION_FAILED"}) => (State' = State)]_vars

C8_Witness ==
    /\ State = "ALL_FAILED"
    /\ i = Len(modelsToTry)
    /\ Len(invocations) = Len(modelsToTry)
    /\ apiKey = "key"

\* C9: a value is returned only for a reply whose payload parses and
\* conforms to the schema, and the value returned is the complete parsed
\* payload of that one reply: nothing of it is dropped and nothing of
\* another reply is merged into it.
C9_CompletePayload ==
    [][(pc' = "returned" /\ pc # "returned") =>
          /\ ValidReply
          /\ outcome' = Returned(Payload.value)]_vars

\* C10: the validator rejects a document without selected_phone and a
\* document in which price_inr, selected_phone_price or a score is a string
\* (the attempt fails with a ZodError and returns nothing), and accepts an
\* otherwise well-typed document from which runner_up and both budget
\* alternatives are omitted, returning it with these fields still absent.
C10_Validator ==
    [][(pc = "resume" /\ response.state = "fulfilled" /\ Payload.ok
          /\ Payload.value.json_type = "object") =>
        LET v == Payload.value IN
        /\ v.selected_phone = "absent" =>
              outcome'.kind # "returned" /\ lastError' = ZodError
        /\ "string" \in {v.price_inr, v.selected_phone_price, v.score_by_priority} =>
              outcome'.kind # "returned" /\ lastError' = ZodError
        /\ ( /\ RequiredWellTyped(v)
             /\ v.runner_up = "absent"
             /\ v.alternative_if_budget_increases = "absent"
             /\ v.alternative_if_budget_decreases = "absent" ) =>
              outcome' = Returned(DeclaredPart(v))]_vars

C10_Witness ==
    /\ pc = "returned"
    /\ outcome.kind = "returned"
    /\ outcome.value.runner_up = "absent"
    /\ outcome.value.alternative_if_budget_increases = "absent"
    /\ outcome.value.alternative_if_budget_decreases = "absent"
    /\ outcome.value.selected_phone = "p1"

\* C11: the validator accepts a document whose required fields are well
\* typed when runner_up is null or absent and each budget alternative is
\* null or absent: the attempt returns the document.
C11_NullOptionals ==
    [][(pc = "resume" /\ response.state = "fulfilled" /\ Payload.ok
          /\ RequiredWellTyped(Payload.value)
          /\ Payload.value.runner_up \in {"absent", "null"}
          /\ Payload.value.alternative_if_budget_increases \in {"absent", "null"}
          /\ Payload.value.alternative_if_budget_decreases \in {"absent", "null"}) =>
        /\ pc' = "returned"
        /\ outcome' = Returned(DeclaredPart(Payload.value))]_vars

\* the document a clean JSON text is the text of
DocumentOf(s) == s[1].value

\* C12: a valid JSON text with no fencing and the same text wrapped in a
\* fenced block give the same parsed object, the document of the text; this
\* includes a document one of whose strings contains the fence marker.
C12_SameParsedObject ==
    \A s \in CleanJsonTexts :
        (pc = "parsed" /\ response.text \in {s} \cup FencedBlocks(s)) =>
            parsed = [ok |-> TRUE, value |-> DocumentOf(s)]

\* the marker p occurs in t at position k
OccursAt(t, p, k) ==
    /\ k \in 1..Len(t)
    /\ k + Len(p) - 1 <= Len(t)
    /\ \A j \in 1..Len(p) : t[k + j - 1] = p[j]

\* t contains a block opened by the marker p
HasBlock(t, p) == \E k \in 1..Len(t) : OccursAt(t, p, k)

\* x is the text between the first marker p of t and the next fence marker
\* (or the end of t when there is none), without the whitespace around it
IsBlockContents(x, t, p) ==
    \E k \in 1..Len(t) :
        /\ OccursAt(t, p, k)
        /\ \A j \in 1..(k - 1) : ~OccursAt(t, p, j)
        /\ \E from, to \in (k + Len(p))..(Len(t) + 1) :
              /\ from <= to
              /\ \A j \in (k + Len(p))..(from - 1) : t[j] = WS
              /\ \A j \in from..(to - 1) : t[j] # FENCE
              /\ x = SubSeq(t, from, to - 1)
              /\ x # <<>> => x[1] # WS /\ x[Len(x)] # WS
              /\ \E close \in to..(Len(t) + 1) :
                    /\ \A j \in to..(close - 1) : t[j] = WS
                    /\ close <= Len(t) => t[close] = FENCE

\* x is what the rule selects from t for the marker p
IsSelected(x, t, p) ==
    \/ x # <<>> /\ IsBlockContents(x, t, p)
    \/ x = t /\ IsBlockContents(<<>>, t, p)

\* C15: once the payload is extracted from a reply text, it is the contents
\* of the block labeled as JSON if the text has one, else the contents of
\* the fenced block if it has one, else the whole text; the contents are
\* the trimmed text between the first opening marker and the next fence
\* marker, and the whole text stands in for empty contents.
C15_ExtractionRule ==
    pc \in {"extracted", "parsed"} =>
        LET t == response.text IN
        IF HasBlock(t, <<FENCE, LABEL>>) THEN IsSelected(jsonText, t, <<FENCE, LABEL>>)
        ELSE IF HasBlock(t, <<FENCE>>) THEN IsSelected(jsonText, t, <<FENCE>>)
        ELSE jsonText = t

\* a fence, then a block labeled as JSON that is never closed
C15_Witness ==
    /\ pc = "parsed"
    /\ response.text = <<FENCE, FENCE, LABEL, JsonTok("json", BaseValue)>>
    /\ jsonText = <<JsonTok("json", BaseValue)>>
    /\ parsed.ok

\* the form names no priority: the field is missing, or none of the pieces
\* between its commas has a character that is not whitespace
NoPrioritySelected ==
    \/ formData.priorities = Null
    \/ \A k \in 1..Len(formData.priorities.value) :
          formData.priorities.value[k] \in {"", " "}

\* the phones of the catalog that the budget and 5G filters let through
Survivors ==
    LET all == Range(csvFile.phones)
        asked == formData.budget # Null /\ formData.budget.value \in {"50", "250", "5000"}
        n == IF asked THEN Numerals[formData.budget.value] ELSE 0
        within == {p \in all : p.price_inr <= n}
        slightlyAbove == {p \in all : 10 * p.price_inr <= 12 * n}
        considered == IF ~asked THEN all
                      ELSE IF Cardinality(within) >= 3 THEN within
                      ELSE slightlyAbove
    IN  {p \in considered : formData.require_5g = Str("on") => p.has_5g}

\* C13: a request that reaches the pipeline has between 1 and 10 phones,
\* all of them survivors of the filters, and at least one priority, none of
\* them empty; when the form names no priority or no phone survives the
\* filters, comparePhones has returned an error state, and neither the
\* pipeline nor a backend was invoked.
C13_BoundedRequest ==
    /\ pc # "idle" =>
          /\ Len(request.phones) \in 1..MaxCompared
          /\ Range(request.phones) \subseteq {p.id : p \in Survivors}
          /\ Len(request.priorities) >= 1
          /\ \A k \in 1..Len(request.priorities) : request.priorities[k] # ""
    /\ (opc # "called" /\ (NoPrioritySelected
                            \/ (csvFile.thrown = NoError /\ Survivors = {}))) =>
          /\ opc = "done"
          /\ compareState.comparison = Null
          /\ compareState.error # Null
          /\ compareState.error.value # <<>>
          /\ pc = "idle"
          /\ request = NoRequest
          /\ invocations = <<>>

\* the catalog has more than 10 phones that survive, and 10 are sent
C13_Witness ==
    /\ opc = "await"
    /\ Cardinality(Survivors) > MaxCompared
    /\ Len(request.phones) = MaxCompared
    /\ Len(request.priorities) = 2
    /\ Len(invocations) = 1
    /\ invocations[1].prompt.phones = request.phones

\* C16: a finished comparePhones call has returned a CompareState in which
\* exactly one of comparison and error is non-null.  After a pipeline
\* failure comparison is null, phones and sources are empty and error is
\* the message of the pipeline's error; after a pipeline success error is
\* null, comparison is the pipeline's validated result and phones is the
\* list that was sent to the pipeline.
C16_NeverThrows ==
    /\ opc = "done" <=> compareState # NoState
    /\ opc = "done" =>
          /\ DOMAIN compareState =
               {"comparison", "phones", "sources", "error", "processingTime"}
          /\ (compareState.comparison = Null) # (compareState.error = Null)
    /\ (opc = "done" /\ pc = "threw") =>
          /\ compareState.comparison = Null
          /\ compareState.phones = <<>>
          /\ compareState.sources = <<>>
          /\ compareState.error = Str(outcome.error.message)
    /\ (opc = "done" /\ pc = "returned") =>
          /\ compareState.error = Null
          /\ compareState.comparison = outcome.value
          /\ compareState.comparison # Null
          /\ compareState.phones = request.phones
          /\ \A k \in 1..Len(invocations) :
                invocations[k].prompt.phones = compareState.phones
    /\ (opc = "await" /\ pc \in {"returned", "threw"}) => ENABLED ComparePhonesResumes
    /\ (opc = "await grounding" /\ pc \in {"returned", "threw"}) =>
          \/ ENABLED CompareWithGroundingResumes
          \/ grounded = CompareWithGrounding(outcome) /\ ENABLED ComparePhonesResumes
    /\ grounded # NoOutcome =>
          /\ formData.use_grounding = Str("on")
          /\ grounded.kind = outcome.kind
          /\ grounded.error = outcome.error

\* every backend failed, and the form shows the pipeline's message
C16_Witness ==
    /\ opc = "done"
    /\ pc = "threw"
    /\ Len(invocations) = 2
    /\ compareState.comparison = Null
    /\ compareState.error = Str(<<AllFailedPrefix, "429 quota exceeded">>)

\* the replies of a call that the call has dealt with: all it received, but
\* for one whose continuation is still queued
Handled(f) ==
    IF f.pc = "resume" THEN SubSeq(f.replies, 1, Len(f.replies) - 1) ELSE f.replies

\* what a call that has begun has come to and which models it has invoked,
\* told from the credential, its request and the replies it has dealt with
OnItsOwn(key, req, reps) ==
    LET n == Len(reps)
        last == AttemptResult(reps[n])
        reason == IF ~last.thrown.isError \/ last.thrown.message = <<>>
                  THEN <<"Unknown error">>
                  ELSE last.thrown.message
    IN  IF key # "key"
        THEN [outcome |-> Threw(Error(<<"GEMINI_API_KEY is not set">>)),
              models |-> <<>>]
        ELSE IF req.phones = <<>>
        THEN [outcome |-> Threw(Error(<<"No phones to compare">>)),
              models |-> <<>>]
        ELSE IF n = 0
        THEN [outcome |-> NoOutcome, models |-> SubSeq(modelsToTry, 1, 1)]
        ELSE IF last.ok
        THEN [outcome |-> Returned(last.value),
              models |-> SubSeq(modelsToTry, 1, n)]
        ELSE IF n = Len(modelsToTry)
        THEN [outcome |-> Threw(Error(<<AllFailedPrefix>> \o reason)),
              models |-> modelsToTry]
        ELSE [outcome |-> NoOutcome, models |-> SubSeq(modelsToTry, 1, n + 1)]

Independent(f) ==
    f.pc # "start" =>
        /\ Len(f.replies) <= Len(modelsToTry)
        /\ \A k \in 1..(Len(f.replies) - 1) : ~AttemptResult(f.replies[k]).ok
        /\ f.outcome = OnItsOwn(apiKey, f.request, Handled(f)).outcome
        /\ [k \in 1..Len(f.invocations) |-> f.invocations[k].model]
             = OnItsOwn(apiKey, f.request, Handled(f)).models
        /\ \A k \in 1..Len(f.invocations) :
              f.invocations[k].prompt = BuildPrompt(f.request)

\* C14: with two calls interleaved at their awaits, what each call has
\* returned or thrown and the models it has invoked are those of a call
\* that runs alone with the same request and receives the same replies, and
\* a step of one call leaves the frame of the other as it is.
C14_Independent ==
    /\ [](Independent(ThisFrame) /\ Independent(other))
    /\ [][other' = other \/ other' = ThisFrame]_vars

\* one call fell back and returned while the other one, given different
\* replies, ran out of models
C14_Witness ==
    /\ pc = "returned"
    /\ Len(replies) = 2
    /\ outcome.value.selected_phone = "p2"
    /\ other.pc = "threw"
    /\ Len(other.replies) = 2
    /\ other.request.phones = <<"p2", "p3">>
    /\ other.outcome.error.message = <<AllFailedPrefix, "429 quota exceeded">>

====
